---- MODULE Spec2Model ----
(***************************************************************************)
(* Model of kif.h (Kompakt Icon Format): kif_encode and kif_decode with    *)
(* their helpers _generate_palette, _in_palette, _read16bit, _read32bit.   *)
(*                                                                         *)
(* A kif_rgba_t is the tuple <<r, g, b, a>> of its four bytes in memory    *)
(* order; comparing the union's .v member is comparing the four bytes.     *)
(* Buffers are sequences, C offsets are 0-based (offset o is element o+1). *)
(* The host is little-endian, as memcpy of the packed KIFHeader assumes.   *)
(*                                                                         *)
(* Reads outside a buffer are undefined behaviour: the word or byte read   *)
(* is whatever the memory holds, a nondeterministic input of the model.    *)
(*                                                                         *)
(* The palette capacity of the source is 65536 = 2^16, the number of       *)
(* values of the uint16_t field palEntries.  The model keeps the two equal *)
(* and uses the smaller PaletteCap for both, above the 256 values of the   *)
(* one-byte palette index, which keeps its real width.                     *)
(***************************************************************************)
EXTENDS Integers, Sequences, FiniteSets, TLC

\* ---------------------------------------------------------------- bounds
MaxLen == 3
MaxJunk == 1
MaxCut == 1
PaletteCap == 259

\* ------------------------------------------------------ program constants
\* sizeof(KIFHeader); the values of an unsigned char; the cap of the run loop
\* (RunCapOff: the cap one too high); 'kif1'; the values of palEntries.
HeaderSize == 16
ByteMod == 256
RunCapOff == ByteMod
RunCap == 255
Magic == 1802069553
U16Mod == PaletteCap

\* A null pointer: no buffer (every buffer pointed to has a header, so is not empty).
NULL == << >>
Unread == -1
Zero == <<0, 0, 0, 0>>
Other == <<"differs">>

Range(s) == {s[k] : k \in 1..Len(s)}
Rep(c, n) == [k \in 1..n |-> c]

\* --------------------------------------------------------------- inputs
Solid == <<10, 20, 30, 255>>
Faint == <<1, 0, 0, 0>>
Colors == {Zero, Solid, Faint}
RampColor(n) == <<n % 256, n \div 256, 7, 255>>
Ramp(n) == [k \in 1..n |-> RampColor(k)]

\* The images: every small one, runs around the run cap, and ramps of
\* distinct colours around the one-byte index space and the palette cap.
SmallImages == UNION {[1..n -> Colors] : n \in 0..MaxLen}
RunLens == {RunCap - 1, RunCap, RunCap + 1, 2 * RunCap}
LongRunImages ==
    {Rep(c, n) \o t : c \in {Zero, Solid}, n \in RunLens, t \in {<< >>, <<Faint>>}}
RampLens == {ByteMod, PaletteCap - 1, PaletteCap}
RampImages ==
    UNION {{Ramp(n) \o t : t \in {<< >>, <<RampColor(n)>>}} : n \in RampLens}
\* An image with the Height its header gives it.
Pictures ==
    {<<p, h>> \in SmallImages \X {1, 2} : Len(p) % h = 0}
        \cup ((LongRunImages \cup RampImages) \X {1})
Depths == {16, 24, 32}
JunkBytes == {0, 255}

VARIABLES pc, px, Header, NumberOfColors, Palette, Pos, i, Color, Encoded,
          pxReadEnd, OutputBuffer, OutputLength,
          Data, hdrNull, OutputBPP, DHeader, DPalette, di, Decoded, DecodedIndex,
          rdEnd, palOOB, heapOverflow, wild, result

encVars == <<px, Header, NumberOfColors, Palette, Pos, i, Color, Encoded,
             pxReadEnd, OutputBuffer, OutputLength>>
decVars == <<Data, hdrNull, OutputBPP, DHeader, DPalette, di, Decoded, DecodedIndex,
             rdEnd, palOOB, heapOverflow, wild, result>>
vars == <<pc, encVars, decVars>>

\* ------------------------------------------------------------- helpers
\* _in_palette: index of the first palette entry equal to Color, else -1.
in_palette(c, pal, n) ==
    LET S == {k \in 1..n : pal[k] = c}
    IN  IF S = {} THEN -1 ELSE (CHOOSE k \in S : \A m \in S : k <= m) - 1

\* _generate_palette, lines 332-334: the reserved first entry.
PaletteInitEmpty == << >>
PaletteInit == <<Zero>>

\* _generate_palette, the body of the loop over Pos for the pixel c:
\* search the palette, append c when absent and the palette is not full.
PaletteAddAlways(pal, c) ==
    IF Len(pal) < PaletteCap THEN Append(pal, c) ELSE pal

PaletteAdd(pal, c) ==
    IF \E k \in 1..Len(pal) : pal[k] = c
    THEN pal
    ELSE IF Len(pal) < PaletteCap THEN Append(pal, c) ELSE pal

\* px_data[idx] as kif_encode's run loop reads it: past the end of the
\* buffer the memory holds `junk` words equal to the colour compared
\* against, then a word that differs.
PxWord(data, junk, c, idx) ==
    IF idx < Len(data) THEN data[idx + 1]
    ELSE IF idx < Len(data) + junk THEN c ELSE Other

\* The inner for loop of kif_encode: rl counts the passes, which end at the
\* first word that differs from Color or when Count reaches the cap.
RunLoop(data, junk, c, idx) ==
    LET stops == {k \in 0..(RunCap - 1) : PxWord(data, junk, c, idx + k) # c} \cup {RunCap}
    IN  CHOOSE n \in stops : \A m \in stops : n <= m

\* Little-endian bytes of an unsigned value.
LE16(v) == <<v % 256, (v \div 256) % 256>>
LE32(v) == <<v % 256, (v \div 256) % 256, (v \div 65536) % 256, (v \div 16777216) % 256>>

HeaderBytes(h) ==
    LE32(h.Magic) \o <<h.BPP, h.Compressed>> \o LE16(h.palEntries)
        \o LE16(h.Width) \o LE16(h.Height) \o LE32(h.RLEEntries)

PaletteBytes(pal, n) == [k \in 1..(4 * n) |-> pal[((k - 1) \div 4) + 1][((k - 1) % 4) + 1]]

RLEBytes(enc, n) ==
    [k \in 1..(2 * n) |->
        IF k % 2 = 1 THEN enc[((k - 1) \div 2) + 1].pID ELSE enc[((k - 1) \div 2) + 1].rle]

DataLen == Header.Width * Header.Height

\* The caller's KIFHeader before kif_decode fills it.
StaleHeader == [Magic |-> 0, BPP |-> 0, Compressed |-> 0, palEntries |-> 0,
                Width |-> 0, Height |-> 0, RLEEntries |-> 0]

\* ---------------------------------------------------------------- Init
Init ==
    /\ pc = "start"
    /\ \E pic \in Pictures :
          /\ px = pic[1]
          /\ Header = [Magic |-> 0, BPP |-> 0, Compressed |-> 0, palEntries |-> 0,
                       Width |-> Len(pic[1]) \div pic[2], Height |-> pic[2],
                       RLEEntries |-> 0]
    /\ NumberOfColors = 0
    /\ Palette = << >>
    /\ Pos = 0
    /\ i = 0
    /\ Color = Zero
    /\ Encoded = << >>
    /\ pxReadEnd = 0
    /\ OutputBuffer = NULL
    /\ OutputLength = 0
    /\ Data = NULL
    /\ hdrNull = FALSE
    /\ OutputBPP = 0
    /\ DHeader = StaleHeader
    /\ DPalette = << >>
    /\ di = 0
    /\ Decoded = << >>
    /\ DecodedIndex = 0
    /\ rdEnd = 0
    /\ palOOB = FALSE
    /\ heapOverflow = FALSE
    /\ wild = Unread
    /\ result = "none"

\* ------------------------------------------------------------ kif_encode
\* A NULL Data, Header or OutputLength: return NULL.
EncodeReject ==
    /\ pc = "start"
    /\ pc' = "encode_null"
    /\ UNCHANGED <<px, Header, NumberOfColors, Palette, Pos, i, Color, Encoded,
                   pxReadEnd, OutputBuffer, OutputLength,
                   decVars>>

\* Entry of _generate_palette: the reserved entry.
EncodeBegin ==
    /\ pc = "start"
    /\ Palette' = PaletteInit
    /\ NumberOfColors' = Len(PaletteInit)
    /\ Pos' = 0
    /\ pc' = "palette"
    /\ UNCHANGED <<px, Header, i, Color, Encoded, pxReadEnd, OutputBuffer, OutputLength,
                   decVars>>

\* One pass of _generate_palette's loop over the pixels.
PaletteStep ==
    /\ pc = "palette"
    /\ Pos < DataLen
    /\ Palette' = PaletteAdd(Palette, px[Pos + 1])
    /\ NumberOfColors' = Len(Palette')
    /\ Pos' = Pos + 1
    /\ UNCHANGED <<pc, px, Header, i, Color, Encoded, pxReadEnd, OutputBuffer,
                   OutputLength,
                   decVars>>

\* _generate_palette returns: palEntries, allocation of Encoded (NULL: return).
PaletteDone ==
    /\ pc = "palette"
    /\ Pos >= DataLen
    /\ Header' = [Header EXCEPT !.palEntries = NumberOfColors % U16Mod]
    /\ \/ pc' = "rle"
       \/ pc' = "encode_nomem"
    /\ UNCHANGED <<px, NumberOfColors, Palette, Pos, i, Color, Encoded, pxReadEnd,
                   OutputBuffer, OutputLength,
                   decVars>>

\* One pass of the outer loop: one RLE entry.
EncodeRun ==
    /\ pc = "rle"
    /\ i < DataLen
    /\ LET c == px[i + 1]
           inrun == RunLoop(px, 0, c, i)
           atEnd == inrun < RunCap /\ i + inrun = Len(px)
       IN  \E junk \in (IF atEnd THEN 0..MaxJunk ELSE {0}) :
              LET rl == RunLoop(px, junk, c, i)
              IN  /\ Color' = c
                  /\ Encoded' = Append(Encoded,
                         [pID |-> in_palette(c, Palette, NumberOfColors) % ByteMod,
                          rle |-> rl % ByteMod])
                  /\ i' = i + rl
                  /\ pxReadEnd' = IF rl < RunCap THEN i + rl + 1 ELSE i + rl
    /\ UNCHANGED <<pc, px, Header, NumberOfColors, Palette, Pos, OutputBuffer, OutputLength,
                   decVars>>

\* Header fields, size, assembly of the output buffer.
EncodeFinish ==
    /\ pc = "rle"
    /\ i >= DataLen
    /\ LET h == [Header EXCEPT !.Magic = Magic, !.BPP = 4, !.Compressed = 0,
                                !.RLEEntries = Len(Encoded)]
       IN  /\ Header' = h
           /\ OutputBuffer' = HeaderBytes(h) \o PaletteBytes(Palette, NumberOfColors)
                                \o RLEBytes(Encoded, Len(Encoded))
           /\ OutputLength' = HeaderSize + 4 * NumberOfColors + 2 * Len(Encoded)
    /\ pc' = "encoded"
    /\ UNCHANGED <<px, NumberOfColors, Palette, Pos, i, Color, Encoded, pxReadEnd,
                   decVars>>

\* ------------------------------------------------------------ kif_decode
\* data_bytes[off]: past the end of the input the byte is whatever the
\* memory holds, b.
Mem(buf, b, off) == IF off < Len(buf) THEN buf[off + 1] ELSE b

\* _read16bit and _read32bit at offset off of the input.
read16bit(buf, b, off) == Mem(buf, b, off + 1) * 256 + Mem(buf, b, off)
read32bit(buf, b, off) ==
    Mem(buf, b, off + 3) * 16777216 + Mem(buf, b, off + 2) * 65536
        + Mem(buf, b, off + 1) * 256 + Mem(buf, b, off)

\* The header fields as kif_decode fills them.
ParseHeader(buf, b) ==
    [Magic |-> read32bit(buf, b, 0), BPP |-> Mem(buf, b, 4), Compressed |-> Mem(buf, b, 5),
     palEntries |-> read16bit(buf, b, 6), Width |-> read16bit(buf, b, 8),
     Height |-> read16bit(buf, b, 10), RLEEntries |-> read32bit(buf, b, 12)]

\* The palette records that follow the header.
ReadPalette(buf, b, n) ==
    [k \in 1..n |-> <<Mem(buf, b, HeaderSize + 4 * (k - 1)),
                      Mem(buf, b, HeaderSize + 4 * (k - 1) + 1),
                      Mem(buf, b, HeaderSize + 4 * (k - 1) + 2),
                      Mem(buf, b, HeaderSize + 4 * (k - 1) + 3)>>]

\* Palette[index]: outside the allocation the word is whatever the heap holds.
PaletteAt(pal, b, index) == IF index < Len(pal) THEN pal[index + 1] ELSE <<b, b, b, b>>

\* The argument check of kif_decode.
ArgsInvalidNoDepth(d, hn, bpp) == d = NULL \/ hn
ArgsInvalid(d, hn, bpp) == d = NULL \/ hn \/ (bpp # 24 /\ bpp # 32)

\* The buffers handed to kif_decode: the encoder's output, whole or without
\* its last bytes.
Inputs(buf) ==
    {SubSeq(buf, 1, Len(buf) - c) : c \in {c \in 0..MaxCut : Len(buf) - c >= HeaderSize}}

\* The bytes the memory outside the buffers may hold: fixed by the first
\* read outside a buffer.
WildChoices == IF wild = Unread THEN JunkBytes ELSE {wild}

DecodeReject ==
    /\ pc = "encoded"
    /\ \E d \in {NULL, OutputBuffer}, hn \in BOOLEAN, bpp \in Depths :
          /\ ArgsInvalid(d, hn, bpp)
          /\ Data' = d
          /\ hdrNull' = hn
          /\ OutputBPP' = bpp
    /\ result' = "NULL"
    /\ pc' = "decoded"
    /\ UNCHANGED <<encVars, DHeader, DPalette, di, Decoded, DecodedIndex, rdEnd, palOOB,
                   heapOverflow, wild>>

\* Header parse, palette read, allocation of Decoded.
DecodeBegin ==
    /\ pc = "encoded"
    /\ \E d \in Inputs(OutputBuffer), bpp \in Depths, b \in WildChoices :
          /\ ~ArgsInvalid(d, FALSE, bpp)
          /\ Data' = d
          /\ hdrNull' = FALSE
          /\ OutputBPP' = bpp
          /\ LET h == ParseHeader(d, b)
                 end == HeaderSize + 4 * h.palEntries
             IN  /\ DHeader' = h
                 /\ DPalette' = ReadPalette(d, b, h.palEntries)
                 /\ rdEnd' = end
                 /\ wild' = IF end > Len(d) THEN b ELSE wild
    /\ di' = 0
    /\ Decoded' = << >>
    /\ DecodedIndex' = 0
    /\ pc' = "expand"
    /\ UNCHANGED <<encVars, palOOB, heapOverflow, result>>

\* One pass of the loop over the RLE entries.
DecodeEntry ==
    /\ pc = "expand"
    /\ di < DHeader.RLEEntries
    /\ \E b \in WildChoices :
          LET off == HeaderSize + DHeader.palEntries * 4 + di * 2
              index == Mem(Data, b, off)
              RunLength == Mem(Data, b, off + 1)
              c == PaletteAt(DPalette, b, index)
              n == IF OutputBPP = 32 THEN 4 ELSE 3
              cap == DHeader.Width * DHeader.Height * 4
              end == DecodedIndex + RunLength * n
              kept == IF end < cap THEN end ELSE cap
              run == [k \in 1..(kept - Len(Decoded)) |-> c[((k - 1) % n) + 1]]
          IN  /\ Decoded' = Decoded \o run
              /\ DecodedIndex' = end
              /\ heapOverflow' = (heapOverflow \/ end > cap)
              /\ palOOB' = (palOOB \/ (RunLength > 0 /\ index >= Len(DPalette)))
              /\ rdEnd' = IF off + 2 > rdEnd THEN off + 2 ELSE rdEnd
              /\ wild' = IF off + 2 > Len(Data) \/ (RunLength > 0 /\ index >= Len(DPalette))
                         THEN b ELSE wild
    /\ di' = di + 1
    /\ UNCHANGED <<pc, encVars, Data, hdrNull, OutputBPP, DHeader, DPalette, result>>

\* The palette is freed and the buffer returned.
DecodeFinish ==
    /\ pc = "expand"
    /\ di >= DHeader.RLEEntries
    /\ result' = "buffer"
    /\ pc' = "decoded"
    /\ UNCHANGED <<encVars, Data, hdrNull, OutputBPP, DHeader, DPalette, di, Decoded,
                   DecodedIndex, rdEnd, palOOB, heapOverflow, wild>>

Next ==
    \/ EncodeReject \/ EncodeBegin \/ PaletteStep \/ PaletteDone \/ EncodeRun \/ EncodeFinish
    \/ DecodeReject \/ DecodeBegin \/ DecodeEntry \/ DecodeFinish

Spec == Init /\ [][Next]_vars

\* ================================================================ claims
\* The bytes of a pixel buffer, in memory order.
PixelBytes(data) == [k \in 1..(4 * Len(data)) |-> data[((k - 1) \div 4) + 1][((k - 1) % 4) + 1]]

\* kif_decode has returned a buffer for the whole output of kif_encode.
RoundTripDone == pc = "decoded" /\ result = "buffer" /\ Data = OutputBuffer

\* C1: for every pixel buffer with at most 256 distinct colours, decoding
\* the encoder's output at depth 32 returns the input pixels byte for byte.
C1_RoundTrip ==
    (RoundTripDone /\ OutputBPP = 32 /\ Cardinality(Range(px)) <= 256)
        => Decoded = PixelBytes(px)

\* The sum of the run lengths of the entries lo..hi.
RECURSIVE SumRuns(_, _, _)
SumRuns(enc, lo, hi) ==
    IF lo > hi THEN 0
    ELSE IF lo = hi THEN enc[lo].rle
    ELSE LET mid == (lo + hi) \div 2
         IN  SumRuns(enc, lo, mid) + SumRuns(enc, mid + 1, hi)

\* C2: the run lengths of the RLE entries kif_encode emits sum to
\* Width*Height, whatever the pixels are.
C2_RunLengthSum ==
    pc = "encoded" => SumRuns(Encoded, 1, Len(Encoded)) = Header.Width * Header.Height

\* The size the header of the input of kif_decode declares.
DeclaredSize == HeaderSize + 4 * read16bit(Data, 0, 6) + 2 * read32bit(Data, 0, 12)

\* C3: kif_decode on an input shorter than the size its header declares
\* returns failure and reads no byte beyond the end of the input.
C3_ShortInputFails ==
    (pc \in {"expand", "decoded"} /\ Data # NULL /\ ~hdrNull /\ OutputBPP \in {24, 32}
        /\ Len(Data) < DeclaredSize)
        => (rdEnd <= Len(Data) /\ (pc = "decoded" => result = "NULL"))

\* C4: a colour first seen when the palette is full is not added to the
\* palette, and each of its pixels is emitted with palette index 0.
C4_DroppedColourIndexZero ==
    (pc = "rle" /\ Len(Encoded) > 0 /\ Len(Palette) = PaletteCap
        /\ \A k \in 1..Len(Palette) : Palette[k] # Color)
        => Encoded[Len(Encoded)].pID = 0

\* The positions of the first occurrence of each colour other than (0,0,0,0).
FirstSeen == {p \in 1..Len(px) : px[p] # Zero /\ \A q \in 1..(p - 1) : px[q] # px[p]}

\* _generate_palette has just returned.
PaletteBuilt == pc = "rle" /\ Encoded = << >>

\* C5: when the distinct colours fit below the palette cap, the palette
\* _generate_palette builds is (0,0,0,0) followed by the other distinct
\* colours of the image in the order of their first occurrence, and no two
\* entries are equal.
C5_PaletteFirstSeenOrder ==
    (PaletteBuilt /\ Cardinality(FirstSeen) + 1 <= PaletteCap)
        => /\ Len(Palette) = Cardinality(FirstSeen) + 1
           /\ NumberOfColors = Len(Palette)
           /\ Palette[1] = Zero
           /\ \A p \in FirstSeen :
                 Palette[1 + Cardinality({q \in FirstSeen : q <= p})] = px[p]
           /\ \A a \in 1..Len(Palette) : \A b \in (a + 1)..Len(Palette) :
                 Palette[a] # Palette[b]

\* C5 witness: a palette built from a picture that repeats a colour, holds
\* (0,0,0,0) after another colour, and has two further colours.
C5_Witness ==
    /\ PaletteBuilt
    /\ Len(Palette) = 3
    /\ Len(px) = 3
    /\ px[1] # Zero /\ px[2] = Zero /\ px[3] # px[1]

\* C6: in every buffer kif_encode produces, palette entry 0 is (0,0,0,0).
C6_ReservedEntryZero ==
    pc \in {"encoded", "expand", "decoded"}
        => /\ Len(OutputBuffer) >= HeaderSize + 4
           /\ SubSeq(OutputBuffer, HeaderSize + 1, HeaderSize + 4) = Zero

\* C6 witness: a buffer encoded from a picture with no transparent-black pixel.
C6_Witness ==
    /\ pc = "encoded"
    /\ Len(px) > 0
    /\ \A p \in 1..Len(px) : px[p] # Zero

\* C7: every RLE entry kif_encode emits has a run length from 1 to 255;
\* a longer run of identical pixels is split into several entries.
C7_RunLengthRange ==
    pc \in {"rle", "encoded"}
        => \A k \in 1..Len(Encoded) : Encoded[k].rle >= 1 /\ Encoded[k].rle <= 255

\* C7 witness: a run of more than 255 identical pixels emitted as two entries.
C7_Witness ==
    /\ pc = "encoded"
    /\ Len(Encoded) >= 2
    /\ Len(px) > 255
    /\ \A p \in 1..256 : px[p] = px[1]
    /\ Encoded[1].rle = 255
    /\ Encoded[2].pID = Encoded[1].pID

\* C8: kif_decode with an output depth other than 24 or 32, a null input or
\* a null header returns failure at once: nothing is read from the input
\* and the caller's header is unchanged.
C8_BadArgsRejected ==
    (pc \in {"expand", "decoded"} /\ (Data = NULL \/ hdrNull \/ OutputBPP \notin {24, 32}))
        => /\ pc = "decoded"
           /\ result = "NULL"
           /\ rdEnd = 0
           /\ DHeader = StaleHeader
           /\ Decoded = << >>

\* C8 witness: kif_decode has returned for a valid buffer and header and depth 16.
C8_Witness ==
    /\ pc = "decoded"
    /\ OutputBPP = 16
    /\ Data = OutputBuffer
    /\ ~hdrNull
    /\ result = "NULL"

\* C9: after kif_encode the header field palEntries, in the header and in
\* the output buffer, is the number of palette entries written to the buffer.
C9_PalEntriesIsColourCount ==
    pc = "encoded"
        => /\ Header.palEntries = NumberOfColors
           /\ read16bit(OutputBuffer, 0, 6) = NumberOfColors

\* C10: every pixel kif_encode's run loop reads is at a position below
\* Width*Height.
C10_PixelReadsInBounds == pxReadEnd <= Header.Width * Header.Height

====
